---- MODULE Spec2Model ----
(***************************************************************************)
(* zspy: the typed codec registry (src/src/message_registry.rs), the build *)
(* step that generates its registration list (src/build.rs) and the        *)
(* command handlers that use it (src/src/main.rs).                         *)
(*                                                                         *)
(* Bytes are natural numbers 0..255, a buffer is a sequence of bytes.      *)
(* A text (a Rust String holding JSON or anything else) is a record        *)
(*   [utf8 |-> its bytes, syntax |-> whether serde_json::from_str accepts  *)
(*    it, val |-> the serde_json::Value it parses to]                      *)
(* so that the parse of a text travels with its bytes.                     *)
(***************************************************************************)
EXTENDS Integers, Sequences, FiniteSets, TLC

\* ---------------------------------------------------------------- bounds
\* Finite doubles of the model are 0.0 .. MaxFloat.0 (plus -0.0 and NaN).
MaxFloat == 1
\* Largest uint64 timestamp of the model.
MaxStamp == 1
\* Longest history of register calls on one registry.
MaxRegs == 3
\* Largest --repeat value, and the cap on the publish counter.
MaxRepeat == 2
\* Most samples one echo subscription receives.
MaxSamples == 2

\* ------------------------------------------------------------- f64 values
DFin(n) == [k |-> "fin", n |-> n]
DNegZero == [k |-> "negzero", n |-> 0]
DNaN == [k |-> "nan", n |-> 0]
\* A double whose bit pattern is outside the table below.
DOther == [k |-> "other", n |-> 0]
Doubles == {DFin(n) : n \in 0..MaxFloat} \cup {DNegZero, DNaN}

\* Rust's `x != 0f64`: -0.0 compares equal to 0.0, NaN compares unequal.
IsZeroF64(d) == d = DFin(0) \/ d = DNegZero

\* Numeric equality of doubles (IEEE ==): NaN equals nothing.
F64Eq(a, b) ==
    /\ a # DNaN
    /\ b # DNaN
    /\ \/ a = b
       \/ IsZeroF64(a) /\ IsZeroF64(b)

\* The two high bytes of the little-endian IEEE-754 pattern of n.0.
HiBytes(n) ==
    CASE n = 0 -> <<0, 0>>
      [] n = 1 -> <<240, 63>>
      [] n = 2 -> <<0, 64>>
      [] n = 3 -> <<8, 64>>
      [] n = 4 -> <<16, 64>>
      [] OTHER -> <<20, 64>>

\* f64::to_le_bytes
F64Bytes(d) ==
    <<0, 0, 0, 0, 0, 0>> \o
      (CASE d.k = "fin" -> HiBytes(d.n)
         [] d.k = "negzero" -> <<0, 128>>
         [] d.k = "nan" -> <<248, 127>>
         [] OTHER -> <<1, 64>>)

\* f64::from_le_bytes on a buffer of 8 bytes
F64FromBytes(b) ==
    LET known == {d \in {DFin(n) : n \in 0..5} \cup {DNegZero, DNaN} : F64Bytes(d) = b}
    IN IF known = {} THEN DOther ELSE CHOOSE d \in known : TRUE

\* ------------------------------------------------------- message schemas
\* message Vector3 { double x = 1; double y = 2; double z = 3; }
Vector3 == [x : Doubles, y : Doubles, z : Doubles]
Vector3Default == [x |-> DFin(0), y |-> DFin(0), z |-> DFin(0)]

\* Option<Vector3>
OptNone == [some |-> FALSE, v |-> Vector3Default]
OptSome(v) == [some |-> TRUE, v |-> v]

\* message ImuMessage { uint64 timestamp = 1; Vector3 accel = 2; }
ImuMessage == [timestamp : 0..MaxStamp, accel : {OptNone} \cup {OptSome(v) : v \in Vector3}]
ImuMessageDefault == [timestamp |-> 0, accel |-> OptNone]

\* The Rust types a factory can be instantiated with.
Types == {"Vector3", "ImuMessage"}
ValuesOf(T) == IF T = "Vector3" THEN Vector3 ELSE ImuMessage

\* ------------------------------------------------------------ prost wire
Drop(s, n) == SubSeq(s, n + 1, Len(s))
Take(s, n) == SubSeq(s, 1, n)

\* prost::encoding::WireType
WireType == [Varint |-> 0, SixtyFourBit |-> 1, LengthDelimited |-> 2,
             StartGroup |-> 3, EndGroup |-> 4, ThirtyTwoBit |-> 5]

RECURSIVE EncodeVarint(_)
\* prost::encoding::encode_varint
EncodeVarint(n) ==
    IF n < 128 THEN <<n>> ELSE <<128 + (n % 128)>> \o EncodeVarint(n \div 128)

\* prost::encoding::encode_key
EncodeKey(tag, wt) == EncodeVarint(tag * 8 + wt)

WireErr == [ok |-> FALSE, val |-> 0, rest |-> <<>>]

RECURSIVE DecodeVarintAt(_, _)
\* prost::encoding::decode_varint: at most 10 bytes, the tenth below 2.
DecodeVarintAt(buf, i) ==
    IF buf = <<>> \/ i > 10 THEN WireErr
    ELSE IF buf[1] < 128
         THEN IF i = 10 /\ buf[1] >= 2 THEN WireErr
              ELSE [ok |-> TRUE, val |-> buf[1], rest |-> Drop(buf, 1)]
         ELSE LET r == DecodeVarintAt(Drop(buf, 1), i + 1)
              IN IF r.ok
                 THEN [ok |-> TRUE, val |-> (buf[1] - 128) + 128 * r.val, rest |-> r.rest]
                 ELSE WireErr

DecodeVarint(buf) == DecodeVarintAt(buf, 1)

\* prost::encoding::decode_key: the key fits 32 bits (its tag is below 2^29),
\* the wire type is 0..5 and the tag is not 0.
DecodeKey(buf) ==
    LET r == DecodeVarint(buf)
    IN IF ~r.ok \/ (r.val \div 8) > 536870911 \/ (r.val % 8) > 5 \/ (r.val \div 8) < 1
       THEN [ok |-> FALSE, tag |-> 0, wt |-> 0, rest |-> <<>>]
       ELSE [ok |-> TRUE, tag |-> r.val \div 8, wt |-> r.val % 8, rest |-> r.rest]

SkipErr == [ok |-> FALSE, rest |-> <<>>]

RECURSIVE SkipField(_, _, _)
RECURSIVE SkipGroup(_, _)
\* prost::encoding::skip_field
SkipField(wt, tag, buf) ==
    CASE wt = WireType.Varint ->
           LET r == DecodeVarint(buf)
           IN IF r.ok THEN [ok |-> TRUE, rest |-> r.rest] ELSE SkipErr
      [] wt = WireType.SixtyFourBit ->
           IF Len(buf) < 8 THEN SkipErr ELSE [ok |-> TRUE, rest |-> Drop(buf, 8)]
      [] wt = WireType.ThirtyTwoBit ->
           IF Len(buf) < 4 THEN SkipErr ELSE [ok |-> TRUE, rest |-> Drop(buf, 4)]
      [] wt = WireType.LengthDelimited ->
           LET r == DecodeVarint(buf)
           IN IF ~r.ok \/ r.val > Len(r.rest) THEN SkipErr
              ELSE [ok |-> TRUE, rest |-> Drop(r.rest, r.val)]
      [] wt = WireType.StartGroup -> SkipGroup(tag, buf)
      [] OTHER -> SkipErr

\* the StartGroup arm of skip_field: skip fields up to the matching EndGroup
SkipGroup(tag, buf) ==
    LET k == DecodeKey(buf)
    IN IF ~k.ok THEN SkipErr
       ELSE IF k.wt = WireType.EndGroup
            THEN IF k.tag = tag THEN [ok |-> TRUE, rest |-> k.rest] ELSE SkipErr
            ELSE LET s == SkipField(k.wt, k.tag, k.rest)
                 IN IF s.ok THEN SkipGroup(tag, s.rest) ELSE SkipErr

\* <Vector3 as prost::Message>::encode_raw: a field equal to 0.0 is not written.
EncodeDouble(tag, d) ==
    IF IsZeroF64(d) THEN <<>> ELSE EncodeKey(tag, WireType.SixtyFourBit) \o F64Bytes(d)

Vector3Encode(v) == EncodeDouble(1, v.x) \o EncodeDouble(2, v.y) \o EncodeDouble(3, v.z)

\* <ImuMessage as prost::Message>::encode_raw
ImuMessageEncode(m) ==
    (IF m.timestamp = 0 THEN <<>>
     ELSE EncodeKey(1, WireType.Varint) \o EncodeVarint(m.timestamp))
    \o (IF m.accel.some
        THEN LET body == Vector3Encode(m.accel.v)
             IN EncodeKey(2, WireType.LengthDelimited) \o EncodeVarint(Len(body)) \o body
        ELSE <<>>)

DecErr == [ok |-> FALSE, msg |-> Vector3Default]

\* every double a decoded field can hold
AnyDouble == {DFin(n) : n \in 0..5} \cup {DNegZero, DNaN, DOther}
AnyVector3 == [x : AnyDouble, y : AnyDouble, z : AnyDouble]

\* <Vector3 as prost::Message>::merge: the decode loop over merge_field, from
\* the fields merged so far.
Vector3Merge[buf \in Seq(0..255), acc \in AnyVector3] ==
    IF buf = <<>> THEN [ok |-> TRUE, msg |-> acc]
    ELSE LET k == DecodeKey(buf)
         IN IF ~k.ok THEN DecErr
            ELSE IF k.tag \in {1, 2, 3}
                 THEN IF k.wt # WireType.SixtyFourBit \/ Len(k.rest) < 8 THEN DecErr
                      ELSE LET d == F64FromBytes(Take(k.rest, 8))
                               nxt == CASE k.tag = 1 -> [acc EXCEPT !.x = d]
                                        [] k.tag = 2 -> [acc EXCEPT !.y = d]
                                        [] OTHER -> [acc EXCEPT !.z = d]
                           IN Vector3Merge[Drop(k.rest, 8), nxt]
                 ELSE LET s == SkipField(k.wt, k.tag, k.rest)
                      IN IF s.ok THEN Vector3Merge[s.rest, acc] ELSE DecErr

\* <Vector3 as prost::Message>::decode
Vector3Decode(buf) == Vector3Merge[buf, Vector3Default]

ImuErr == [ok |-> FALSE, msg |-> ImuMessageDefault]

AnyImuMessage ==
    [timestamp : Nat, accel : {OptNone} \cup [some : {TRUE}, v : AnyVector3]]

\* <ImuMessage as prost::Message>::merge
ImuMessageMerge[buf \in Seq(0..255), acc \in AnyImuMessage] ==
    IF buf = <<>> THEN [ok |-> TRUE, msg |-> acc]
    ELSE LET k == DecodeKey(buf)
         IN IF ~k.ok THEN ImuErr
            ELSE CASE k.tag = 1 ->
                        LET r == DecodeVarint(k.rest)
                        IN IF k.wt # WireType.Varint \/ ~r.ok THEN ImuErr
                           ELSE ImuMessageMerge[r.rest, [acc EXCEPT !.timestamp = r.val]]
                   [] k.tag = 2 ->
                        LET r == DecodeVarint(k.rest)
                        IN IF k.wt # WireType.LengthDelimited \/ ~r.ok THEN ImuErr
                           ELSE IF r.val > Len(r.rest) THEN ImuErr
                           ELSE LET inner == Vector3Merge[Take(r.rest, r.val),
                                               IF acc.accel.some THEN acc.accel.v
                                               ELSE Vector3Default]
                                IN IF ~inner.ok THEN ImuErr
                                   ELSE ImuMessageMerge[Drop(r.rest, r.val),
                                          [acc EXCEPT !.accel = OptSome(inner.msg)]]
                   [] OTHER ->
                        LET s == SkipField(k.wt, k.tag, k.rest)
                        IN IF s.ok THEN ImuMessageMerge[s.rest, acc] ELSE ImuErr

\* <ImuMessage as prost::Message>::decode
ImuMessageDecode(buf) == ImuMessageMerge[buf, ImuMessageDefault]

\* ------------------------------------------------------------ serde_json
\* serde_json::Value, one record shape for every kind.
JNull == [j |-> "null", d |-> DFin(0), n |-> 0, o |-> <<>>]
JNum(d) == [j |-> "num", d |-> d, n |-> 0, o |-> <<>>]
JInt(n) == [j |-> "int", d |-> DFin(0), n |-> n, o |-> <<>>]
JObj(o) == [j |-> "obj", d |-> DFin(0), n |-> 0, o |-> o]

\* Serializer::serialize_f64: NaN and the infinities are written as null.
SerF64(d) == IF d.k = "nan" THEN JNull ELSE JNum(d)

\* <Vector3 as serde::Serialize>::serialize, as a Value
Vector3ToValue(v) == JObj([x |-> SerF64(v.x), y |-> SerF64(v.y), z |-> SerF64(v.z)])

\* <ImuMessage as serde::Serialize>::serialize, as a Value
ImuMessageToValue(m) ==
    JObj([timestamp |-> JInt(m.timestamp),
          accel |-> IF m.accel.some THEN Vector3ToValue(m.accel.v) ELSE JNull])

RECURSIVE Digits(_)
\* itoa: the decimal digits of n, in ASCII
Digits(n) == IF n < 10 THEN <<48 + n>> ELSE Digits(n \div 10) \o <<48 + (n % 10)>>

\* ryu's shortest form of a double that is not NaN: "1.0", "-0.0"
F64Text(d) ==
    CASE d.k = "fin" -> Digits(d.n) \o <<46, 48>>
      [] d.k = "negzero" -> <<45, 48, 46, 48>>
      [] OTHER -> <<50, 46, 49, 50, 53>>

\* the text serialize_f64 writes
SerF64Text(d) == IF d.k = "nan" THEN <<110, 117, 108, 108>> ELSE F64Text(d)

RECURSIVE Spaces(_)
Spaces(n) == IF n = 0 THEN <<>> ELSE <<32>> \o Spaces(n - 1)

\* PrettyFormatter: one `"key": ` at the given indentation
PrettyKey(key, indent) == Spaces(indent) \o <<34>> \o key \o <<34, 58, 32>>

\* to_string_pretty of a Vector3 whose opening brace stands at `indent`
Vector3Pretty(v, indent) ==
    <<123, 10>>
    \o PrettyKey(<<120>>, indent + 2) \o SerF64Text(v.x) \o <<44, 10>>
    \o PrettyKey(<<121>>, indent + 2) \o SerF64Text(v.y) \o <<44, 10>>
    \o PrettyKey(<<122>>, indent + 2) \o SerF64Text(v.z) \o <<10>>
    \o Spaces(indent) \o <<125>>

\* to_string_pretty of an ImuMessage
ImuMessagePretty(m) ==
    <<123, 10>>
    \o PrettyKey(<<116, 105, 109, 101, 115, 116, 97, 109, 112>>, 2)
    \o Digits(m.timestamp) \o <<44, 10>>
    \o PrettyKey(<<97, 99, 99, 101, 108>>, 2)
    \o (IF m.accel.some THEN Vector3Pretty(m.accel.v, 2) ELSE <<110, 117, 108, 108>>)
    \o <<10, 125>>

\* serde_json::to_string_pretty(&msg): infallible for these two structs
ToStringPretty[T \in Types, msg \in AnyVector3 \cup AnyImuMessage] ==
    IF T = "Vector3"
    THEN [utf8 |-> Vector3Pretty(msg, 0), syntax |-> TRUE, val |-> Vector3ToValue(msg)]
    ELSE [utf8 |-> ImuMessagePretty(msg), syntax |-> TRUE, val |-> ImuMessageToValue(msg)]

\* <f64 as Deserialize>: any JSON number, an integer converted
DeF64(jv) ==
    CASE jv.j = "num" -> [ok |-> TRUE, d |-> jv.d]
      [] jv.j = "int" -> [ok |-> TRUE, d |-> DFin(jv.n)]
      [] OTHER -> [ok |-> FALSE, d |-> DFin(0)]

\* <Vector3 as Deserialize> from a Value: every field is required, an unknown
\* key is ignored, anything but an object is an invalid type.
Vector3FromValue(jv) ==
    IF jv.j # "obj" \/ ~({"x", "y", "z"} \subseteq DOMAIN jv.o) THEN DecErr
    ELSE LET fx == DeF64(jv.o.x)
             fy == DeF64(jv.o.y)
             fz == DeF64(jv.o.z)
         IN IF fx.ok /\ fy.ok /\ fz.ok
            THEN [ok |-> TRUE, msg |-> [x |-> fx.d, y |-> fy.d, z |-> fz.d]]
            ELSE DecErr

\* <ImuMessage as Deserialize> from a Value: timestamp is a required unsigned
\* integer, accel is an Option (absent or null is None).
ImuMessageFromValue(jv) ==
    IF jv.j # "obj" \/ "timestamp" \notin DOMAIN jv.o THEN ImuErr
    ELSE IF jv.o.timestamp.j # "int" THEN ImuErr
    ELSE IF "accel" \notin DOMAIN jv.o \/ jv.o.accel.j = "null"
         THEN [ok |-> TRUE, msg |-> [timestamp |-> jv.o.timestamp.n, accel |-> OptNone]]
         ELSE LET a == Vector3FromValue(jv.o.accel)
              IN IF a.ok
                 THEN [ok |-> TRUE,
                       msg |-> [timestamp |-> jv.o.timestamp.n, accel |-> OptSome(a.msg)]]
                 ELSE ImuErr

\* ------------------------------------------------- Result<_, Box<dyn Error>>
\* `by` says who produced the result: the registry's own lookup or a factory.
Ok(out) == [ok |-> TRUE, kind |-> "Ok", name |-> "", by |-> "factory", out |-> out]
DecodeError == [ok |-> FALSE, kind |-> "DecodeError", name |-> "", by |-> "factory", out |-> <<>>]
EncodeError == [ok |-> FALSE, kind |-> "EncodeError", name |-> "", by |-> "factory", out |-> <<>>]
\* format!("Unknown message type: {}", msg_type).into()
UnknownType(n) == [ok |-> FALSE, kind |-> "UnknownType", name |-> n, by |-> "registry", out |-> <<>>]

\* ------------------------------------------------ ProtoMessageFactory<T>
\* ProtoMessageFactory::<T>::decode
factory_decode[T \in Types, bytes \in Seq(0..255)] ==
    LET msg == IF T = "Vector3" THEN Vector3Decode(bytes) ELSE ImuMessageDecode(bytes)
    IN IF ~msg.ok THEN DecodeError ELSE Ok(ToStringPretty[T, msg.msg])

\* ProtoMessageFactory::<T>::encode
factory_encode(T, json) ==
    IF ~json.syntax THEN EncodeError
    ELSE LET msg == IF T = "Vector3" THEN Vector3FromValue(json.val)
                    ELSE ImuMessageFromValue(json.val)
         IN IF ~msg.ok THEN EncodeError
            ELSE Ok(IF T = "Vector3" THEN Vector3Encode(msg.msg)
                    ELSE ImuMessageEncode(msg.msg))

\* ProtoMessageFactory::<T>::get_schema: "Schema not available yet"
factory_get_schema(T) == "Schema not available yet"

\* -------------------------------------------------------- MessageRegistry
\* MessageRegistry::new: an empty HashMap
new == <<>>

\* register keeping an existing binding (HashMap::entry(..).or_insert)
register_keep_first(f, name, T) ==
    [k \in DOMAIN f \cup {name} |-> IF k \in DOMAIN f THEN f[k] ELSE T]

\* MessageRegistry::register::<T>(name): HashMap::insert, replacing any binding
register(f, name, T) == [k \in DOMAIN f \cup {name} |-> IF k = name THEN T ELSE f[k]]

\* decode falling back to the Vector3 factory for an unknown name
decode_fallback(f, msg_type, bytes) ==
    IF msg_type \in DOMAIN f THEN factory_decode[f[msg_type], bytes]
    ELSE factory_decode["Vector3", bytes]

\* MessageRegistry::decode
decode(f, msg_type, bytes) ==
    IF msg_type \in DOMAIN f THEN factory_decode[f[msg_type], bytes]
    ELSE UnknownType(msg_type)

\* encode reporting a factory's failure as an unknown type
encode_masking(f, msg_type, json) ==
    IF msg_type \in DOMAIN f /\ factory_encode(f[msg_type], json).ok
    THEN factory_encode(f[msg_type], json)
    ELSE UnknownType(msg_type)

\* MessageRegistry::encode
encode(f, msg_type, json) ==
    IF msg_type \in DOMAIN f THEN factory_encode(f[msg_type], json)
    ELSE UnknownType(msg_type)

\* list_types skipping the first key of the iteration
list_types_skip_first(f) ==
    {Drop(s, 1) : s \in {t \in [1..Cardinality(DOMAIN f) -> DOMAIN f] :
                           {t[i] : i \in DOMAIN t} = DOMAIN f}}

\* MessageRegistry::list_types: the keys in the HashMap's iteration order, which
\* is any order; the set of the sequences a call may return.
list_types(f) ==
    {s \in [1..Cardinality(DOMAIN f) -> DOMAIN f] : {s[i] : i \in DOMAIN s} = DOMAIN f}

None == [some |-> FALSE, v |-> ""]
Some(v) == [some |-> TRUE, v |-> v]

\* get_schema answering the placeholder for any name
get_schema_any(f, msg_type) == Some("Schema not available yet")

\* MessageRegistry::get_schema
get_schema(f, msg_type) ==
    IF msg_type \in DOMAIN f THEN Some(factory_get_schema(f[msg_type])) ELSE None

\* ----------------------------------------------------------------- inputs
\* Type names a caller may pass.
Names == {"zspy.Vector3", "zspy.ImuMessage", "unknown.Type"}

\* the UTF-8 bytes of a name
NameBytes(n) ==
    CASE n = "zspy.Vector3" -> <<122, 115, 112, 121, 46, 86, 101, 99, 116, 111, 114, 51>>
      [] n = "zspy.ImuMessage" ->
           <<122, 115, 112, 121, 46, 73, 109, 117, 77, 101, 115, 115, 97, 103, 101>>
      [] OTHER -> <<117, 110, 107, 110, 111, 119, 110, 46, 84, 121, 112, 101>>

SampleVector3 == [x |-> DFin(1), y |-> DFin(0), z |-> DNaN]
SampleImuMessage == [timestamp |-> 1, accel |-> OptSome([x |-> DFin(1), y |-> DFin(0), z |-> DFin(0)])]

\* Byte buffers a caller may pass: empty, the bytes 1 2 3, a Vector3, a Vector3
\* cut short, an ImuMessage, and a field with an unknown tag.
BytesPool ==
    {<<>>, <<1, 2, 3>>, Vector3Encode(SampleVector3), Take(Vector3Encode(SampleVector3), 5),
     ImuMessageEncode(SampleImuMessage), <<32, 1>>}

\* the text `not json`
NotJson == [utf8 |-> <<110, 111, 116, 32, 106, 115, 111, 110>>, syntax |-> FALSE, val |-> JNull]

\* the text {"x":1.0,"y":2.0,"z":3.0}
Xyz123 ==
    [utf8 |-> <<123, 34, 120, 34, 58, 49, 46, 48, 44, 34, 121, 34, 58, 50, 46, 48, 44,
                34, 122, 34, 58, 51, 46, 48, 125>>,
     syntax |-> TRUE,
     val |-> JObj([x |-> JNum(DFin(1)), y |-> JNum(DFin(2)), z |-> JNum(DFin(3))])]

\* the text {"x":1}
OnlyX ==
    [utf8 |-> <<123, 34, 120, 34, 58, 49, 125>>, syntax |-> TRUE, val |-> JObj([x |-> JInt(1)])]

\* Texts a caller may pass.
TextPool ==
    {NotJson, Xyz123, OnlyX, ToStringPretty["Vector3", SampleVector3],
     ToStringPretty["ImuMessage", SampleImuMessage]}

\* Topic keys of the model.
Keys == {"imu/data", "cmd/vel"}

\* ------------------------------------------------------ String::from_utf8_lossy
IsCont(b) == b >= 128 /\ b <= 191

\* U+FFFD REPLACEMENT CHARACTER in UTF-8
Replacement == <<239, 191, 189>>

\* the range the second byte of a sequence led by `b` must be in
SecondLo(b) == CASE b = 224 -> 160 [] b = 240 -> 144 [] OTHER -> 128
SecondHi(b) == CASE b = 237 -> 159 [] b = 244 -> 143 [] OTHER -> 191

\* the number of bytes of the sequence led by `b`, 0 for a byte that leads none
SeqLen(b) ==
    CASE b < 128 -> 1
      [] b >= 194 /\ b <= 223 -> 2
      [] b >= 224 /\ b <= 239 -> 3
      [] b >= 240 /\ b <= 244 -> 4
      [] OTHER -> 0

\* how many bytes at the head of `b` are a prefix of a well-formed sequence,
\* up to the length `want` of the sequence its first byte leads
ValidPrefix(b, want) ==
    IF want = 0 THEN 0
    ELSE IF want = 1 THEN 1
    ELSE IF Len(b) < 2 \/ b[2] < SecondLo(b[1]) \/ b[2] > SecondHi(b[1]) THEN 1
    ELSE IF want = 2 THEN 2
    ELSE IF Len(b) < 3 \/ ~IsCont(b[3]) THEN 2
    ELSE IF want = 3 THEN 3
    ELSE IF Len(b) < 4 \/ ~IsCont(b[4]) THEN 3
    ELSE 4

\* String::from_utf8_lossy: a well-formed sequence is kept, each maximal
\* ill-formed run becomes one U+FFFD. Total: there is no failing input.
from_utf8_lossy[b \in Seq(0..255)] ==
    IF b = <<>> THEN <<>>
    ELSE LET want == SeqLen(b[1])
             got == ValidPrefix(b, want)
         IN IF want > 0 /\ got = want
            THEN Take(b, want) \o from_utf8_lossy[Drop(b, want)]
            ELSE Replacement \o from_utf8_lossy[Drop(b, IF got = 0 THEN 1 ELSE got)]

\* ---------------------------------------------------------------- build.rs
\* Messages of package zspy that the .proto files under proto/ may define.
ProtoUniverse == {"Vector3", "ImuMessage", "Quaternion"}

\* the fully-qualified name of a message of package zspy
CanonicalName(m) ==
    CASE m = "Vector3" -> "zspy.Vector3"
      [] m = "ImuMessage" -> "zspy.ImuMessage"
      [] OTHER -> "zspy.Quaternion"

\* generate_registry_file(_proto_files): the body of register_messages, the
\* same two calls whatever the proto files are.
generate_registry_file(proto_files) ==
    <<[T |-> "Vector3", name |-> "zspy.Vector3"],
      [T |-> "ImuMessage", name |-> "zspy.ImuMessage"]>>

\* rustc on the generated registry.rs: `use crate::{Vector3, ImuMessage}`
\* resolves only when prost generated both structs.
CrateCompiles(proto_files) == {"Vector3", "ImuMessage"} \subseteq proto_files

RECURSIVE RunCalls(_, _)
\* registry::register_messages(&mut registry): the generated calls, in order
RunCalls(f, list) ==
    IF list = <<>> THEN f
    ELSE RunCalls(register(f, list[1].name, list[1].T), Drop(list, 1))

\* create_message_registry()
create_message_registry(list) == RunCalls(new, list)

\* the register calls create_message_registry makes
RegistrationCalls(list) == [i \in DOMAIN list |-> [name |-> list[i].name, T |-> list[i].T]]

\* format!("Error decoding message: {}", e)
ErrorPrefix ==
    <<69, 114, 114, 111, 114, 32, 100, 101, 99, 111, 100, 105, 110, 103, 32, 109, 101,
      115, 115, 97, 103, 101, 58, 32>>

\* <Box<dyn Error> as Display>: the String of an unknown type, prost's or
\* serde_json's message otherwise
ErrorDisplay(e) ==
    IF e.kind = "UnknownType"
    THEN <<85, 110, 107, 110, 111, 119, 110, 32, 109, 101, 115, 115, 97, 103, 101, 32,
           116, 121, 112, 101, 58, 32>> \o NameBytes(e.name)
    ELSE <<102, 97, 105, 108, 101, 100, 32, 116, 111, 32, 100, 101, 99, 111, 100, 101,
           32, 80, 114, 111, 116, 111, 98, 117, 102, 32, 109, 101, 115, 115, 97, 103,
           101, 58, 32>>

\* ------------------------------------------------------------------ state
VARIABLES
    factories,   \* MessageRegistry.factories: name -> the T of its ProtoMessageFactory<T>
    calls,       \* the register calls made on the registry, in order
    last,        \* the last registry operation: its name, arguments and result
    rt,          \* one value taken through to_string_pretty, encode and decode
    protos,      \* the messages the .proto files of the build define
    registryRs,  \* OUT_DIR/registry.rs: the generated list of register calls
    pc,          \* where the build and the process are
    cli,         \* Cli::parse(): the command and its arguments
    pubs,        \* handle_pub: count, payload, the puts made, the completion line
    echos        \* handle_echo: the samples received and the lines displayed

regVars == <<factories, calls, last>>
progVars == <<protos, registryRs, pc, cli, pubs, echos>>
vars == <<factories, calls, last, rt, protos, registryRs, pc, cli, pubs, echos>>

NoCall == [op |-> "new", name |-> "", arg |-> <<>>, res |-> <<>>]
NoRt == [pc |-> "idle", T |-> "Vector3", v |-> Vector3Default,
         text |-> NotJson, enc |-> EncodeError, dec |-> DecodeError]
NoCli == [cmd |-> "none", key |-> "", value |-> NotJson, type |-> None, repeat |-> 0]
NoPub == [count |-> 0, payload |-> <<>>, puts |-> <<>>, completed |-> FALSE]
NoEcho == [samples |-> <<>>, displayed |-> <<>>, recvFailed |-> FALSE]

\* the program's variables when only the registry or the codec is exercised
ProgIdle ==
    /\ protos = {"Vector3", "ImuMessage"}
    /\ registryRs = generate_registry_file(protos)
    /\ pc = "library"
    /\ cli = NoCli
    /\ pubs = NoPub
    /\ echos = NoEcho

\* ------------------------------------------------ the registry as a library
InitRegistry ==
    /\ factories = new
    /\ calls = <<>>
    /\ last = NoCall
    /\ rt = NoRt
    /\ ProgIdle

Register(n, T) ==
    /\ Len(calls) < MaxRegs
    /\ factories' = register(factories, n, T)
    /\ calls' = Append(calls, [name |-> n, T |-> T])
    /\ last' = [op |-> "register", name |-> n, arg |-> T, res |-> <<>>]
    /\ UNCHANGED <<rt, progVars>>

\* a decode that binds a looked-up name that is missing (HashMap::entry)
Decode_inserting(n, bytes) ==
    /\ last' = [op |-> "decode", name |-> n, arg |-> bytes, res |-> decode(factories, n, bytes)]
    /\ factories' = IF n \in DOMAIN factories THEN factories ELSE register(factories, n, "Vector3")
    /\ UNCHANGED <<calls, rt, progVars>>

Decode(n, bytes) ==
    /\ last' = [op |-> "decode", name |-> n, arg |-> bytes, res |-> decode(factories, n, bytes)]
    /\ UNCHANGED <<factories, calls, rt, progVars>>

Encode(n, json) ==
    /\ last' = [op |-> "encode", name |-> n, arg |-> json, res |-> encode(factories, n, json)]
    /\ UNCHANGED <<factories, calls, rt, progVars>>

ListTypes ==
    /\ \E s \in list_types(factories) :
         last' = [op |-> "list_types", name |-> "", arg |-> <<>>, res |-> s]
    /\ UNCHANGED <<factories, calls, rt, progVars>>

GetSchema(n) ==
    /\ last' = [op |-> "get_schema", name |-> n, arg |-> <<>>, res |-> get_schema(factories, n)]
    /\ UNCHANGED <<factories, calls, rt, progVars>>

NextRegistry ==
    \/ \E n \in Names, T \in Types : Register(n, T)
    \/ \E n \in Names, bytes \in BytesPool : Decode(n, bytes)
    \/ \E n \in Names, json \in TextPool : Encode(n, json)
    \/ ListTypes
    \/ \E n \in Names : GetSchema(n)

SpecRegistry == InitRegistry /\ [][NextRegistry]_vars

\* --------------------------------------------- one value through the codec
\* The registry is the one create_message_registry builds; any value of a
\* registered schema is taken through to_string_pretty, encode and decode.
InitCodec ==
    /\ factories = create_message_registry(generate_registry_file({"Vector3", "ImuMessage"}))
    /\ calls = RegistrationCalls(generate_registry_file({"Vector3", "ImuMessage"}))
    /\ last = NoCall
    /\ \E T \in Types : \E v \in ValuesOf(T) : rt = [NoRt EXCEPT !.pc = "value", !.T = T, !.v = v]
    /\ ProgIdle

\* the canonical text of the value
RtText ==
    /\ rt.pc = "value"
    /\ rt' = [rt EXCEPT !.pc = "text", !.text = ToStringPretty[rt.T, rt.v]]
    /\ UNCHANGED <<regVars, progVars>>

RtEncode ==
    /\ rt.pc = "text"
    /\ rt' = [rt EXCEPT !.pc = "encoded",
                        !.enc = encode(factories, CanonicalName(rt.T), rt.text)]
    /\ UNCHANGED <<regVars, progVars>>

RtDecode ==
    /\ rt.pc = "encoded"
    /\ rt.enc.ok
    /\ rt' = [rt EXCEPT !.pc = "decoded",
                        !.dec = decode(factories, CanonicalName(rt.T), rt.enc.out)]
    /\ UNCHANGED <<regVars, progVars>>

NextCodec == RtText \/ RtEncode \/ RtDecode

SpecCodec == InitCodec /\ [][NextCodec]_vars

\* --------------------------------------------------- the build and the process
\* Before the build: the proto directory holds any set of messages.
Init ==
    /\ factories = new
    /\ calls = <<>>
    /\ last = NoCall
    /\ rt = NoRt
    /\ protos \in SUBSET ProtoUniverse
    /\ registryRs = <<>>
    /\ pc = "build"
    /\ cli = NoCli
    /\ pubs = NoPub
    /\ echos = NoEcho

\* build.rs main, then the compilation of the crate with the generated files
Build ==
    /\ pc = "build"
    /\ registryRs' = generate_registry_file(protos)
    /\ pc' = IF CrateCompiles(protos) THEN "main" ELSE "build_failed"
    /\ UNCHANGED <<regVars, rt, protos, cli, pubs, echos>>

\* the registry a handler starts with
Created ==
    /\ factories' = create_message_registry(registryRs)
    /\ calls' = RegistrationCalls(registryRs)

\* Commands::Types / TypeCommands::List: handle_types_list
TypesList ==
    /\ pc = "main"
    /\ Created
    /\ cli' = [NoCli EXCEPT !.cmd = "types_list"]
    /\ \E s \in list_types(factories') :
         last' = [op |-> "list_types", name |-> "", arg |-> <<>>, res |-> s]
    /\ pc' = "exit_ok"
    /\ UNCHANGED <<rt, protos, registryRs, pubs, echos>>

\* Commands::Types / TypeCommands::Show: handle_types_show
TypesShow(name) ==
    /\ pc = "main"
    /\ Created
    /\ cli' = [NoCli EXCEPT !.cmd = "types_show", !.type = Some(name)]
    /\ last' = [op |-> "get_schema", name |-> name, arg |-> <<>>,
                res |-> get_schema(factories', name)]
    /\ pc' = IF last'.res.some THEN "exit_ok" ELSE "exit_err"
    /\ UNCHANGED <<rt, protos, registryRs, pubs, echos>>

\* Commands::List: handle_list
List ==
    /\ pc = "main"
    /\ cli' = [NoCli EXCEPT !.cmd = "list"]
    /\ pc' = "exit_ok"
    /\ UNCHANGED <<regVars, rt, protos, registryRs, pubs, echos>>

\* Commands::Echo: handle_echo up to the first recv_async
EchoStart(key, type) ==
    /\ pc = "main"
    /\ Created
    /\ cli' = [NoCli EXCEPT !.cmd = "echo", !.key = key, !.type = type]
    /\ echos' = NoEcho
    /\ pc' = "echo"
    /\ UNCHANGED <<last, rt, protos, registryRs, pubs>>

\* Result::unwrap_or_else(|e| format!("Error decoding message: {}", e))
unwrap_or_else(r) == IF r.ok THEN r.out.utf8 ELSE ErrorPrefix \o ErrorDisplay(r)

\* handle_echo: the display_value of one sample
display_value(f, msg_type, payload) ==
    IF msg_type.some THEN unwrap_or_else(decode(f, msg_type.v, payload))
    ELSE from_utf8_lossy[payload]

\* a loop body that returns a decode failure with `?` instead of displaying it
EchoSample_fatal(key, payload) ==
    /\ pc = "echo"
    /\ Len(echos.samples) < MaxSamples
    /\ IF cli.type.some /\ ~decode(factories, cli.type.v, payload).ok
       THEN /\ pc' = "exit_err"
            /\ echos' = [echos EXCEPT
                           !.samples = Append(@, [key |-> key, payload |-> payload])]
       ELSE /\ pc' = pc
            /\ echos' = [echos EXCEPT
                           !.samples = Append(@, [key |-> key, payload |-> payload]),
                           !.displayed = Append(@, [key |-> key,
                                            value |-> display_value(factories, cli.type, payload)])]
    /\ UNCHANGED <<regVars, rt, protos, registryRs, cli, pubs>>

\* handle_echo: recv_async returns Ok(sample); one pass of the loop body
EchoSample(key, payload) ==
    /\ pc = "echo"
    /\ Len(echos.samples) < MaxSamples
    /\ echos' = [echos EXCEPT
                   !.samples = Append(@, [key |-> key, payload |-> payload]),
                   !.displayed = Append(@, [key |-> key,
                                            value |-> display_value(factories, cli.type, payload)])]
    /\ UNCHANGED <<regVars, rt, protos, registryRs, pc, cli, pubs>>

\* handle_echo: recv_async returns Err; the loop ends and the handler returns Ok
EchoRecvErr ==
    /\ pc = "echo"
    /\ echos' = [echos EXCEPT !.recvFailed = TRUE]
    /\ pc' = "exit_ok"
    /\ UNCHANGED <<regVars, rt, protos, registryRs, cli, pubs>>

\* value.as_bytes().to_vec()
as_bytes(value) == value.utf8

\* Commands::Pub: handle_pub up to the first tick of the loop
PubStart(key, value, type, repeat) ==
    /\ pc = "main"
    /\ Created
    /\ cli' = [cmd |-> "pub", key |-> key, value |-> value, type |-> type, repeat |-> repeat]
    /\ LET r == IF type.some THEN encode(factories', type.v, value) ELSE Ok(as_bytes(value))
       IN /\ pubs' = [NoPub EXCEPT !.payload = r.out]
          /\ pc' = IF r.ok THEN "pub" ELSE "exit_err"
    /\ UNCHANGED <<last, rt, protos, registryRs, echos>>

\* a loop body whose exit test lacks `repeat > 0`
PubPut_no_zero_check ==
    /\ pc = "pub"
    /\ pubs.count <= MaxRepeat
    /\ LET count == pubs.count + 1
           done == count >= cli.repeat
       IN /\ pubs' = [pubs EXCEPT
                        !.puts = Append(@, [key |-> cli.key, payload |-> pubs.payload]),
                        !.count = count,
                        !.completed = done]
          /\ pc' = IF done THEN "exit_ok" ELSE "pub"
    /\ UNCHANGED <<regVars, rt, protos, registryRs, cli, echos>>

\* handle_pub: one pass of the loop body, the put succeeding. The counter is
\* capped at MaxRepeat + 1 puts, which only an endless publish reaches.
PubPut ==
    /\ pc = "pub"
    /\ pubs.count <= MaxRepeat
    /\ LET count == pubs.count + 1
           done == cli.repeat > 0 /\ count >= cli.repeat
       IN /\ pubs' = [pubs EXCEPT
                        !.puts = Append(@, [key |-> cli.key, payload |-> pubs.payload]),
                        !.count = count,
                        !.completed = done]
          /\ pc' = IF done THEN "exit_ok" ELSE "pub"
    /\ UNCHANGED <<regVars, rt, protos, registryRs, cli, echos>>

\* handle_pub: session.put fails and `?` returns the error
PubPutErr ==
    /\ pc = "pub"
    /\ pc' = "exit_err"
    /\ UNCHANGED <<regVars, rt, protos, registryRs, cli, pubs, echos>>

Next ==
    \/ Build
    \/ TypesList
    \/ \E name \in Names : TypesShow(name)
    \/ List
    \/ \E key \in Keys, type \in {None} \cup {Some(n) : n \in Names} : EchoStart(key, type)
    \/ \E key \in Keys, payload \in BytesPool : EchoSample(key, payload)
    \/ EchoRecvErr
    \/ \E key \in Keys, value \in TextPool, type \in {None} \cup {Some(n) : n \in Names},
          repeat \in 0..MaxRepeat : PubStart(key, value, type, repeat)
    \/ PubPut
    \/ PubPutErr

Spec == Init /\ [][Next]_vars

\* ================================================================ claims
\* the names passed to register so far
RegisteredNames == {calls[i].name : i \in DOMAIN calls}

\* the type the latest register call for name n passed
LastBound(n) ==
    LET at == {i \in DOMAIN calls : calls[i].name = n}
    IN calls[CHOOSE i \in at : \A j \in at : j <= i].T

IsUnknownType(r, n) ==
    /\ ~r.ok
    /\ r.kind = "UnknownType"
    /\ r.name = n
    /\ r.by = "registry"
    /\ r.out = <<>>

\* C1: a decode or an encode of a name never passed to register fails with
\* the unknown-type error naming it, whatever the bytes or the text, and no
\* factory is invoked.
C1_UnknownTypeFails ==
    (last.op \in {"decode", "encode"} /\ last.name \notin RegisteredNames)
      => IsUnknownType(last.res, last.name)

\* decode("unknown.Type", [1,2,3]) has failed on a registry that holds factories
C1_Witness ==
    /\ calls # <<>>
    /\ last.op = "decode"
    /\ last.name = "unknown.Type"
    /\ last.arg = <<1, 2, 3>>
    /\ last.res.kind = "UnknownType"

\* C2: one factory per name, the last registered: decode, encode and
\* get_schema of a registered name behave as the factory of the latest
\* register call for it, and the name is listed exactly once.
C2_LastWriterWins ==
    /\ \A n \in RegisteredNames : n \in DOMAIN factories /\ factories[n] = LastBound(n)
    /\ (last.op = "decode" /\ last.name \in RegisteredNames)
         => last.res = factory_decode[LastBound(last.name), last.arg]
    /\ (last.op = "encode" /\ last.name \in RegisteredNames)
         => last.res = factory_encode(LastBound(last.name), last.arg)
    /\ (last.op = "get_schema" /\ last.name \in RegisteredNames)
         => last.res = Some(factory_get_schema(LastBound(last.name)))
    /\ last.op = "list_types"
         => \A n \in RegisteredNames :
              Cardinality({i \in DOMAIN last.res : last.res[i] = n}) = 1

\* a name registered twice with different types, another name registered in
\* between, and a decode of it whose result the first factory would not give
C2_Witness ==
    /\ Len(calls) = 3
    /\ calls[1].name = calls[3].name
    /\ calls[1].T # calls[3].T
    /\ calls[2].name # calls[1].name
    /\ last.op = "decode"
    /\ last.name = calls[1].name
    /\ last.res # factory_decode[calls[1].T, last.arg]

\* C3: list_types returns the names passed to register so far, each once, in
\* some order
C3_ListTypesIsRegisteredSet ==
    last.op = "list_types" =>
      /\ {last.res[i] : i \in DOMAIN last.res} = RegisteredNames
      /\ Len(last.res) = Cardinality(RegisteredNames)

\* list_types has returned two names after three register calls
C3_Witness ==
    /\ Len(calls) = 3
    /\ Cardinality(RegisteredNames) = 2
    /\ last.op = "list_types"
    /\ Len(last.res) = 2

\* C4: get_schema is absent exactly for the names not registered and is the
\* bound factory's get_schema for the others
C4_GetSchemaPresence ==
    /\ \A n \in Names :
         LET r == get_schema(factories, n)
         IN /\ r.some <=> n \in RegisteredNames
            /\ r.some => r.v = factory_get_schema(LastBound(n))
    /\ last.op = "get_schema" => (last.res.some <=> last.name \in RegisteredNames)

\* get_schema has returned absent for an unregistered name while another
\* name was registered
C4_Witness ==
    /\ calls # <<>>
    /\ last.op = "get_schema"
    /\ last.name \notin RegisteredNames
    /\ ~last.res.some
    /\ \E n \in RegisteredNames : get_schema(factories, n).some

\* C6: for a registered name the registry returns the factory's result: a
\* failure is a DecodeError (decode) or an EncodeError (encode), never an
\* UnknownType, and carries no output; encode("zspy.Vector3", "not json") is
\* an EncodeError.
C6_DelegatesToFactory ==
    /\ (last.op = "decode" /\ last.name \in RegisteredNames)
         => /\ last.res = factory_decode[LastBound(last.name), last.arg]
            /\ last.res.by = "factory"
            /\ ~last.res.ok => last.res.kind = "DecodeError" /\ last.res.out = <<>>
    /\ (last.op = "encode" /\ last.name \in RegisteredNames)
         => /\ last.res = factory_encode(LastBound(last.name), last.arg)
            /\ last.res.by = "factory"
            /\ ~last.res.ok => last.res.kind = "EncodeError" /\ last.res.out = <<>>
    /\ (last.op = "encode" /\ last.name = "zspy.Vector3" /\ last.arg = NotJson
        /\ "zspy.Vector3" \in RegisteredNames)
         => last.res.kind = "EncodeError"

\* encode("zspy.Vector3", "not json") has failed with EncodeError
C6_Witness ==
    /\ "zspy.Vector3" \in RegisteredNames
    /\ LastBound("zspy.Vector3") = "Vector3"
    /\ last.op = "encode"
    /\ last.name = "zspy.Vector3"
    /\ last.arg = NotJson
    /\ last.res.kind = "EncodeError"

\* C9: a step that is not a register call leaves the factories as they were
C9_OnlyRegisterMutates ==
    [][last'.op # "register" => factories' = factories]_vars

\* a decode of a registered name has failed
C9_Witness ==
    /\ factories # new
    /\ last.op = "decode"
    /\ last.name \in DOMAIN factories
    /\ last.res.kind = "DecodeError"

\* the text parses to a value of T that equals v field by field (IEEE ==)
Vector3Eq(a, b) == F64Eq(a.x, b.x) /\ F64Eq(a.y, b.y) /\ F64Eq(a.z, b.z)

Represents(text, T, v) ==
    /\ text.syntax
    /\ IF T = "Vector3"
       THEN LET m == Vector3FromValue(text.val)
            IN m.ok /\ Vector3Eq(m.msg, v)
       ELSE LET m == ImuMessageFromValue(text.val)
            IN /\ m.ok
               /\ m.msg.timestamp = v.timestamp
               /\ m.msg.accel.some = v.accel.some
               /\ v.accel.some => Vector3Eq(m.msg.accel.v, v.accel.v)

\* C5: round trip: encoding the canonical text of a value of a registered
\* schema succeeds, and decoding the bytes under the same name succeeds and
\* gives text that represents the value.
C5_RoundTripLaw ==
    /\ rt.pc \in {"encoded", "decoded"} => rt.enc.ok
    /\ rt.pc = "decoded" => rt.dec.ok /\ Represents(rt.dec.out, rt.T, rt.v)

\* the messages the proto sources define, by canonical name
CompiledNames == {CanonicalName(m) : m \in protos}

\* C7: after the registration step, register was called exactly once for
\* every compiled-in schema, with its canonical name, and for nothing else.
C7_RegistrationMatchesCompiled ==
    cli.cmd \in {"types_list", "types_show", "echo", "pub"} =>
      /\ RegisteredNames = CompiledNames
      /\ DOMAIN factories = CompiledNames
      /\ \A n \in CompiledNames : Cardinality({i \in DOMAIN calls : calls[i].name = n}) = 1

\* C8: handle_pub prints the completion line only for repeat = n > 0 and
\* after exactly n puts of the payload to the key; until then fewer than n
\* puts were made; with repeat = 0 it never completes.
C8_PubRepeatCount ==
    cli.cmd = "pub" =>
      /\ pubs.count = Len(pubs.puts)
      /\ \A i \in DOMAIN pubs.puts : pubs.puts[i] = [key |-> cli.key, payload |-> pubs.payload]
      /\ pubs.completed <=> (pc = "exit_ok")
      /\ pubs.completed => cli.repeat > 0 /\ Len(pubs.puts) = cli.repeat
      /\ cli.repeat = 0 => ~pubs.completed
      /\ (pc = "pub" /\ cli.repeat > 0) => Len(pubs.puts) < cli.repeat

\* handle_pub has completed after MaxRepeat puts
C8_Witness ==
    /\ cli.cmd = "pub"
    /\ cli.repeat = MaxRepeat
    /\ MaxRepeat > 1
    /\ pubs.completed
    /\ Len(pubs.puts) = MaxRepeat

HasPrefix(b, prefix) == Len(b) >= Len(prefix) /\ Take(b, Len(prefix)) = prefix

\* well-formed UTF-8
IsUtf8[b \in Seq(0..255)] ==
    \/ b = <<>>
    \/ /\ SeqLen(b[1]) > 0
       /\ ValidPrefix(b, SeqLen(b[1])) = SeqLen(b[1])
       /\ IsUtf8[Drop(b, SeqLen(b[1]))]

\* C10: every sample received has its one displayed line, in order: with a
\* declared type the decoded text, or an error text when the decode fails;
\* with none the payload as text, whatever its bytes. The loop is left only
\* when the receive fails.
C10_EchoOneLinePerSample ==
    cli.cmd = "echo" =>
      /\ Len(echos.displayed) = Len(echos.samples)
      /\ \A i \in DOMAIN echos.samples :
           LET sample == echos.samples[i]
               line == echos.displayed[i]
           IN /\ line.key = sample.key
              /\ IF cli.type.some
                 THEN IF decode(factories, cli.type.v, sample.payload).ok
                      THEN line.value = decode(factories, cli.type.v, sample.payload).out.utf8
                      ELSE HasPrefix(line.value, ErrorPrefix)
                 ELSE /\ IsUtf8[line.value]
                      /\ IsUtf8[sample.payload] => line.value = sample.payload
      /\ pc = "echo" <=> ~echos.recvFailed
      /\ pc # "echo" => pc = "exit_ok"

\* two samples were displayed, the first a failed decode
C10_Witness ==
    /\ cli.cmd = "echo"
    /\ cli.type.some
    /\ Len(echos.displayed) = 2
    /\ ~decode(factories, cli.type.v, echos.samples[1].payload).ok
    /\ HasPrefix(echos.displayed[1].value, ErrorPrefix)
    /\ decode(factories, cli.type.v, echos.samples[2].payload).ok
    /\ pc = "echo"

====
